---- MODULE Spec2Model ----
(***************************************************************************)
(* RuuviTagMonitoringStack (lib/ruuvi_tag_monitoring-stack.ts) and its     *)
(* entry point (bin script).  The constructor is modelled statement by     *)
(* statement: each `new X(this, id, props)` adds one construct to the      *)
(* stack, and the orchestrator then creates and deletes the declared       *)
(* resources in any order the declared dependency edges allow.             *)
(*                                                                         *)
(* Strings built by template literals are sequences of atoms.  An atom is  *)
(* a one-character string, or a token: the placeholder the library puts in *)
(* a string for a value known only at deploy time (`iotThing.ref`,         *)
(* `iotRuleRole.roleArn`, `this.account`, ...).  A token names the         *)
(* resource it resolves against; a literal names nothing.                  *)
(***************************************************************************)
EXTENDS Naturals, Integers, Sequences, FiniteSets, TLC

VARIABLES
    props,              \* the RuuviTagMonitoringStackProps the constructor is given
    env,                \* this.region and this.account
    pc,                 \* the constructor statement reached ("done", "failed" at its end)
    constructs,         \* the constructs declared in the stack so far, by variable name
    phase,              \* what the orchestrator is doing: "synth", "deploy", "teardown"
    live,               \* the declared resources that currently exist
    physicalResourceId, \* the credential's physical resource id ("" when it has none)
    sdkCalls,           \* the SDK calls the credential's handlers have made, in order
    deploys             \* the number of deployments started

vars == <<props, env, pc, constructs, phase, live, physicalResourceId, sdkCalls, deploys>>

(***************************************************************************)
(* Bounds of the model.                                                    *)
(***************************************************************************)
MaxPrefixLen == 2
MaxIdLen == 1
MaxTopicLen == 3
MaxDeploys == 2

(***************************************************************************)
(* String helpers: what a template literal and the readers of the          *)
(* resulting strings do.                                                   *)
(***************************************************************************)
Range(s) == {s[i] : i \in 1..Len(s)}

\* All strings over alphabet A of length at most n.
StringsUpTo(A, n) == UNION {[1..k -> A] : k \in 0..n}

IsPrefix(p, s) == Len(p) <= Len(s) /\ SubSeq(s, 1, Len(p)) = p

Drop(s, n) == SubSeq(s, n + 1, Len(s))

\* Index of the first occurrence of sub in s, 0 when there is none.
IndexOf(sub, s) ==
    LET hits == {i \in 1..(Len(s) + 1) : IsPrefix(sub, Drop(s, i - 1))}
    IN IF Len(sub) > Len(s) \/ hits = {} THEN 0
       ELSE CHOOSE i \in hits : \A j \in hits : i <= j

\* The text before / after the first occurrence of sub (after: <<>> if absent).
Before(sub, s) == IF IndexOf(sub, s) = 0 THEN s ELSE SubSeq(s, 1, IndexOf(sub, s) - 1)
After(sub, s) == IF IndexOf(sub, s) = 0 THEN <<>> ELSE Drop(s, IndexOf(sub, s) + Len(sub) - 1)

RECURSIVE Split(_, _)
\* s cut at every occurrence of the one-atom separator sep.
Split(sep, s) ==
    IF IndexOf(sep, s) = 0 THEN <<s>>
    ELSE <<Before(sep, s)>> \o Split(sep, After(sep, s))

(***************************************************************************)
(* Tokens: deploy-time references embedded in strings.                     *)
(***************************************************************************)
TokAccount == "${AWS::AccountId}"
TokRegion == "${AWS::Region}"
TokThingRef == "${iotThing.Ref}"
TokCertificateArn == "${iotThingKeysAndCert.certificateArn}"
TokCertificatePem == "${iotThingKeysAndCert.certificatePem}"
TokPrivateKey == "${iotThingKeysAndCert.keyPair.PrivateKey}"
TokRoleArn == "${iotRuleRole.Arn}"
TokLogGroupName == "${iotRuleErrorLog.Ref}"
TokLogGroupArn == "${iotRuleErrorLog.Arn}"

\* The construct a token resolves against ("" for the pseudo parameters).
TokenTarget ==
    (TokAccount :> "") @@ (TokRegion :> "") @@
    (TokThingRef :> "iotThing") @@
    (TokCertificateArn :> "iotThingKeysAndCert") @@
    (TokCertificatePem :> "iotThingKeysAndCert") @@
    (TokPrivateKey :> "iotThingKeysAndCert") @@
    (TokRoleArn :> "iotRuleRole") @@
    (TokLogGroupName :> "iotRuleErrorLog") @@
    (TokLogGroupArn :> "iotRuleErrorLog")

Tokens == DOMAIN TokenTarget

\* The constructs a string value refers to through its tokens.
RefsOf(s) == {TokenTarget[a] : a \in Range(s) \cap Tokens} \ {""}

(***************************************************************************)
(* Configuration inputs (RuuviTagMonitoringStackProps) and the entry point.*)
(***************************************************************************)
ShippedProps ==
    [thingName |-> <<"R","a","s","p","b","e","r","r","y","P","i">>,
     iotTopicPrefix |-> <<"r","u","u","v","i","t","a","g">>,
     cloudWatchMetricNameSpace |-> <<"R","u","u","v","i","T","a","g">>,
     ruuviTagId |-> <<"f","3","d","6","1","9","9","9","8","f","3","8">>]

ShippedEnv ==
    [region |-> <<"e","u","-","n","o","r","t","h","-","1">>,
     account |-> <<TokAccount>>]

\* Characters a topic prefix / a device id is drawn from.
PrefixAlphabet == {"r", "/", "*", "?", "'"}
IdAlphabet == {"f", "'"}

ThingNames ==
    {ShippedProps.thingName,
     <<"D","a","s","h","b","o","a","r","d">>,
     <<"I","o","t","R","u","l","e","_","f">>}

TopicPrefixes == StringsUpTo(PrefixAlphabet, MaxPrefixLen) \cup {ShippedProps.iotTopicPrefix}

NameSpaces == {ShippedProps.cloudWatchMetricNameSpace, <<"N","/","S">>}

RuuviTagIds == StringsUpTo(IdAlphabet, MaxIdLen) \cup {ShippedProps.ruuviTagId}

Envs == {ShippedEnv, [region |-> <<TokRegion>>, account |-> <<TokAccount>>]}

\* Every configuration record the constructor is run on.
Configs ==
    [thingName : ThingNames,
     iotTopicPrefix : TopicPrefixes,
     cloudWatchMetricNameSpace : NameSpaces,
     ruuviTagId : RuuviTagIds]

\* The configurations the full deploy/teardown life cycle is explored for.
DeployConfigs ==
    {c \in Configs :
        /\ c.iotTopicPrefix = ShippedProps.iotTopicPrefix
        /\ c.cloudWatchMetricNameSpace = ShippedProps.cloudWatchMetricNameSpace
        /\ c.ruuviTagId \in {ShippedProps.ruuviTagId, <<"f">>}}

(***************************************************************************)
(* The constructs the constructor declares, in source order.  Each         *)
(* operator is the props object of one `new` expression, with the          *)
(* construct id (second constructor argument) as field id.                 *)
(***************************************************************************)
iotThing(p) ==
    [id |-> p.thingName,
     type |-> "AWS::IoT::Thing",
     dependsOn |-> {},
     thingName |-> p.thingName]

\* The credential with the physical id taken from another response field.
iotThingKeysAndCert_ArnAsPhysicalId ==
    [id |-> <<"I","o","t","T","h","i","n","g","K","e","y","s","A","n","d","C","e","r","t">>,
     type |-> "Custom::AWS",
     dependsOn |-> {},
     onCreate |->
        [service |-> "@aws-sdk/client-iot",
         action |-> "CreateKeysAndCertificateCommand",
         parameters |-> [setAsActive |-> TRUE],
         physicalResourceId |-> [fromResponse |-> "certificateArn"],
         outputPaths |-> <<"certificateArn", "certificatePem", "keyPair.PrivateKey">>],
     logRetention |-> "SIX_MONTHS",
     policy |-> [resources |-> "ANY_RESOURCE"],
     onDelete |->
        [service |-> "@aws-sdk/client-iot",
         action |-> "DeleteCertificateCommand",
         parameters |-> [certificateId |-> "PhysicalResourceIdReference"]]]

iotThingKeysAndCert ==
    [id |-> <<"I","o","t","T","h","i","n","g","K","e","y","s","A","n","d","C","e","r","t">>,
     type |-> "Custom::AWS",
     dependsOn |-> {},
     onCreate |->
        [service |-> "@aws-sdk/client-iot",
         action |-> "CreateKeysAndCertificateCommand",
         parameters |-> [setAsActive |-> TRUE],
         physicalResourceId |-> [fromResponse |-> "certificateId"],
         outputPaths |-> <<"certificateArn", "certificatePem", "keyPair.PrivateKey">>],
     logRetention |-> "SIX_MONTHS",
     policy |-> [resources |-> "ANY_RESOURCE"],
     onDelete |->
        [service |-> "@aws-sdk/client-iot",
         action |-> "DeleteCertificateCommand",
         parameters |-> [certificateId |-> "PhysicalResourceIdReference"]]]

iotThingKeysAndCertSecret ==
    [id |-> <<"I","o","t","T","h","i","n","g","K","e","y","s","A","n","d","C","e","r","t","S","e","c","r","e","t">>,
     type |-> "AWS::SecretsManager::Secret",
     dependsOn |-> {},
     secretObjectValue |->
        [certificatePem |-> <<TokCertificatePem>>,
         privateKey |-> <<TokPrivateKey>>]]

iotThingPrincipalAttachment(p) ==
    [id |-> <<"I","o","t","T","h","i","n","g","P","r","i","n","c","i","p","a","l","A","t","t","a","c","h","m","e","n","t">>,
     type |-> "AWS::IoT::ThingPrincipalAttachment",
     dependsOn |-> {},
     principal |-> <<TokCertificateArn>>,
     thingName |-> p.thingName]

\* The publish resource without the prefix: every topic.
PublishResource_AllTopics(p, e) ==
    <<"a","r","n",":","a","w","s",":","i","o","t",":">> \o e.region \o <<":">> \o e.account
        \o <<":","t","o","p","i","c","/">> \o <<"*">>

\* `arn:aws:iot:${this.region}:${this.account}:topic/${props.iotTopicPrefix}/*`
PublishResource(p, e) ==
    <<"a","r","n",":","a","w","s",":","i","o","t",":">> \o e.region \o <<":">> \o e.account
        \o <<":","t","o","p","i","c","/">> \o p.iotTopicPrefix \o <<"/","*">>

\* `arn:aws:iot:${this.region}:${this.account}:client/${iotThing.ref}`
ConnectResource(e) ==
    <<"a","r","n",":","a","w","s",":","i","o","t",":">> \o e.region \o <<":">> \o e.account
        \o <<":","c","l","i","e","n","t","/">> \o <<TokThingRef>>

iotThingPolicy(p, e) ==
    [id |-> p.thingName \o <<"P","o","l","i","c","y">>,
     type |-> "AWS::IoT::Policy",
     dependsOn |-> {},
     policyName |-> p.thingName \o <<"P","o","l","i","c","y">>,
     policyDocument |->
        [Version |-> "2012-10-17",
         Statement |->
            <<[Effect |-> "Allow",
               Action |-> <<"iot:Publish">>,
               Resource |-> <<PublishResource(p, e)>>],
              [Effect |-> "Allow",
               Action |-> <<"iot:Connect">>,
               Resource |-> <<ConnectResource(e)>>]>>]]

\* policyName is the policy construct's own policyName property: the string
\* that was passed to it, not a reference to the policy resource.
IotThingPolicyPrincipalAttachment(policy) ==
    [id |-> <<"I","o","t","T","h","i","n","g","P","o","l","i","c","y","P","r","i","n","c","i","p","a","l","A","t","t","a","c","h","m","e","n","t">>,
     type |-> "AWS::IoT::PolicyPrincipalAttachment",
     dependsOn |-> {},
     principal |-> <<TokCertificateArn>>,
     policyName |-> policy.policyName]

iotRuleErrorLog ==
    [id |-> <<"I","o","t","R","u","l","e","E","r","r","o","r","L","o","g">>,
     type |-> "AWS::Logs::LogGroup",
     dependsOn |-> {},
     logGroupName |-> <<TokLogGroupName>>,
     logGroupArn |-> <<TokLogGroupArn>>]

\* defaultPolicy holds what grants add to the role after its construction.
iotRuleRole ==
    [id |-> <<"I","o","t","R","u","l","e","R","o","l","e">>,
     type |-> "AWS::IAM::Role",
     dependsOn |-> {},
     roleArn |-> <<TokRoleArn>>,
     assumedBy |-> "iot.amazonaws.com",
     inlinePolicies |->
        [putMetricsPolicy |->
            <<[actions |-> <<"cloudwatch:PutMetricData">>, resources |-> << <<"*">> >>]>>],
     defaultPolicy |-> <<>>]

\* A read grant in place of the write grant.
GrantWrite_ReadOnly(logGroup) ==
    [actions |-> <<"logs:GetLogEvents", "logs:FilterLogEvents">>,
     resources |-> <<logGroup.logGroupArn>>]

\* iotRuleErrorLog.grantWrite(grantee): the statement added to the grantee.
GrantWrite(logGroup) ==
    [actions |-> <<"logs:CreateLogStream", "logs:PutLogEvents">>,
     resources |-> <<logGroup.logGroupArn>>]

\* `${props.cloudWatchMetricNameSpace}/${props.ruuviTagId}` (rule actions)
RuleMetricNamespace(p) == p.cloudWatchMetricNameSpace \o <<"/">> \o p.ruuviTagId

\* The filter expression over every device under the prefix.
RuleSql_AnyDevice(p) ==
    <<"S","E","L","E","C","T"," ","t","e","m","p","e","r","a","t","u","r","e",",","h","u","m","i","d","i","t","y"," ","F","R","O","M"," ","'">>
        \o p.iotTopicPrefix \o <<"/","#","'">>

\* `SELECT temperature,humidity FROM '${props.iotTopicPrefix}/${props.ruuviTagId}'`
RuleSql(p) ==
    <<"S","E","L","E","C","T"," ","t","e","m","p","e","r","a","t","u","r","e",",","h","u","m","i","d","i","t","y"," ","F","R","O","M"," ","'">>
        \o p.iotTopicPrefix \o <<"/">> \o p.ruuviTagId \o <<"'">>

CfnTopicRule(p, roleArn, logGroupName) ==
    [id |-> <<"I","o","t","R","u","l","e","_">> \o p.ruuviTagId,
     type |-> "AWS::IoT::TopicRule",
     dependsOn |-> {},
     ruleName |-> <<"R","u","u","v","i","T","a","g","E","v","e","n","t","s","_">> \o p.ruuviTagId,
     topicRulePayload |->
        [actions |->
            <<[cloudwatchMetric |->
                 [metricName |-> "Temperature",
                  metricNamespace |-> RuleMetricNamespace(p),
                  metricUnit |-> "None",
                  metricValue |-> "${temperature}",
                  roleArn |-> roleArn]],
              [cloudwatchMetric |->
                 [metricName |-> "Humidity",
                  metricNamespace |-> RuleMetricNamespace(p),
                  metricUnit |-> "None",
                  metricValue |-> "${humidity}",
                  roleArn |-> roleArn]]>>,
         awsIotSqlVersion |-> "2016-03-23",
         sql |-> RuleSql(p),
         ruleDisabled |-> FALSE,
         errorAction |->
            [cloudwatchLogs |->
                [logGroupName |-> logGroupName,
                 roleArn |-> roleArn]]]]

\* The rule with the role's ARN written out instead of taken from the role.
iotRule_HardCodedRoleArn(p, role, logGroup) ==
    CfnTopicRule(p,
                 <<"a","r","n",":","a","w","s",":","i","a","m",":",":","r","o","l","e","/","I","o","t","R","u","l","e","R","o","l","e">>,
                 logGroup.logGroupName)

iotRule(p, role, logGroup) == CfnTopicRule(p, role.roleArn, logGroup.logGroupName)

\* The dashboard namespace without the device id.
DashboardMetricNamespace_NoId(p) == p.cloudWatchMetricNameSpace

\* `${props.cloudWatchMetricNameSpace}/${props.ruuviTagId}` (dashboard metric)
DashboardMetricNamespace(p) == p.cloudWatchMetricNameSpace \o <<"/">> \o p.ruuviTagId

DashboardMetric(p) ==
    [namespace |-> DashboardMetricNamespace(p),
     metricName |-> "Humidity",
     statistic |-> "Average",
     period |-> [minutes |-> 5]]

dashboard(p, e) ==
    [id |-> <<"D","a","s","h","b","o","a","r","d">>,
     type |-> "AWS::CloudWatch::Dashboard",
     dependsOn |-> {},
     dashboardName |-> p.thingName \o <<"-","D","a","s","h","b","o","a","r","d">>,
     start |-> "-P7D",
     widgets |->
        << <<[left |-> <<DashboardMetric(p)>>,
              leftAnnotations |->
                 <<[value |-> 53, color |-> "#ff0000", fill |-> "BELOW", label |-> "Low"],
                   [value |-> 75, color |-> "#ff0000", fill |-> "ABOVE", label |-> "High"]>>,
              leftYAxis |-> [max |-> 85, min |-> 45, showUnits |-> FALSE],
              legendPosition |-> "HIDDEN",
              region |-> e.region,
              title |-> "Kosteus (%)",
              width |-> 6,
              height |-> 6]>> >>]

(***************************************************************************)
(* The constructor, one action per statement.                              *)
(***************************************************************************)
Declared == DOMAIN constructs

\* `new X(this, id, ...)`: the construct joins the stack under its id; a
\* second construct with an id already used in the stack makes the
\* constructor throw.
Declare(name, c, next) ==
    IF \E n \in Declared : constructs[n].id = c.id
    THEN pc' = "failed" /\ UNCHANGED constructs
    ELSE pc' = next /\ constructs' = constructs @@ (name :> c)

orchVars == <<phase, live, physicalResourceId, sdkCalls, deploys>>

NewIotThing ==
    /\ pc = "iotThing"
    /\ Declare("iotThing", iotThing(props), "iotThingKeysAndCert")
    /\ UNCHANGED <<props, env, orchVars>>

NewIotThingKeysAndCert ==
    /\ pc = "iotThingKeysAndCert"
    /\ Declare("iotThingKeysAndCert", iotThingKeysAndCert, "iotThingKeysAndCertSecret")
    /\ UNCHANGED <<props, env, orchVars>>

NewIotThingKeysAndCertSecret ==
    /\ pc = "iotThingKeysAndCertSecret"
    /\ Declare("iotThingKeysAndCertSecret", iotThingKeysAndCertSecret,
               "iotThingPrincipalAttachment")
    /\ UNCHANGED <<props, env, orchVars>>

NewIotThingPrincipalAttachment ==
    /\ pc = "iotThingPrincipalAttachment"
    /\ Declare("iotThingPrincipalAttachment", iotThingPrincipalAttachment(props),
               "addDependency")
    /\ UNCHANGED <<props, env, orchVars>>

\* iotThingPrincipalAttachment.addDependency(iotThing)
AddDependency_Omitted ==
    /\ pc = "addDependency"
    /\ pc' = "iotThingPolicy"
    /\ UNCHANGED <<props, env, constructs, phase, live, physicalResourceId, sdkCalls, deploys>>

AddDependency ==
    /\ pc = "addDependency"
    /\ constructs' =
          [constructs EXCEPT !["iotThingPrincipalAttachment"].dependsOn = @ \cup {"iotThing"}]
    /\ pc' = "iotThingPolicy"
    /\ UNCHANGED <<props, env, orchVars>>

NewIotThingPolicy ==
    /\ pc = "iotThingPolicy"
    /\ Declare("iotThingPolicy", iotThingPolicy(props, env),
               "IotThingPolicyPrincipalAttachment")
    /\ UNCHANGED <<props, env, orchVars>>

NewIotThingPolicyPrincipalAttachment_Omitted ==
    /\ pc = "IotThingPolicyPrincipalAttachment"
    /\ pc' = "iotRuleErrorLog"
    /\ UNCHANGED <<props, env, constructs, phase, live, physicalResourceId, sdkCalls, deploys>>

NewIotThingPolicyPrincipalAttachment ==
    /\ pc = "IotThingPolicyPrincipalAttachment"
    /\ Declare("IotThingPolicyPrincipalAttachment",
               IotThingPolicyPrincipalAttachment(constructs["iotThingPolicy"]),
               "iotRuleErrorLog")
    /\ UNCHANGED <<props, env, orchVars>>

NewIotRuleErrorLog ==
    /\ pc = "iotRuleErrorLog"
    /\ Declare("iotRuleErrorLog", iotRuleErrorLog, "iotRuleRole")
    /\ UNCHANGED <<props, env, orchVars>>

NewIotRuleRole ==
    /\ pc = "iotRuleRole"
    /\ Declare("iotRuleRole", iotRuleRole, "grantWrite")
    /\ UNCHANGED <<props, env, orchVars>>

\* iotRuleErrorLog.grantWrite(iotRuleRole)
GrantWriteToRole ==
    /\ pc = "grantWrite"
    /\ constructs' =
          [constructs EXCEPT !["iotRuleRole"].defaultPolicy =
              Append(@, GrantWrite(constructs["iotRuleErrorLog"]))]
    /\ pc' = "iotRule"
    /\ UNCHANGED <<props, env, orchVars>>

NewIotRule ==
    /\ pc = "iotRule"
    /\ Declare("iotRule",
               iotRule(props, constructs["iotRuleRole"], constructs["iotRuleErrorLog"]),
               "dashboard")
    /\ UNCHANGED <<props, env, orchVars>>

NewDashboard ==
    /\ pc = "dashboard"
    /\ Declare("dashboard", dashboard(props, env), "done")
    /\ UNCHANGED <<props, env, orchVars>>

Construct ==
    \/ NewIotThing
    \/ NewIotThingKeysAndCert
    \/ NewIotThingKeysAndCertSecret
    \/ NewIotThingPrincipalAttachment
    \/ AddDependency
    \/ NewIotThingPolicy
    \/ NewIotThingPolicyPrincipalAttachment
    \/ NewIotRuleErrorLog
    \/ NewIotRuleRole
    \/ GrantWriteToRole
    \/ NewIotRule
    \/ NewDashboard

InitState(cfgs) ==
    /\ props \in cfgs
    /\ env \in Envs
    /\ pc = "iotThing"
    /\ constructs = [n \in {} |-> 0]
    /\ phase = "synth"
    /\ live = {}
    /\ physicalResourceId = ""
    /\ sdkCalls = <<>>
    /\ deploys = 0

\* Synthesis alone, over every configuration.
SynthInit == InitState(Configs)

SynthSpec == SynthInit /\ [][Construct]_vars

(***************************************************************************)
(* The declared graph: what each construct refers to.                      *)
(***************************************************************************)
\* The string-valued properties of a construct (its own attributes, such as
\* a role's roleArn, are outputs and not among them).
StringValues(c) ==
    CASE c.type = "AWS::IoT::Thing" -> {c.thingName}
      [] c.type = "AWS::SecretsManager::Secret" ->
            {c.secretObjectValue.certificatePem, c.secretObjectValue.privateKey}
      [] c.type = "AWS::IoT::ThingPrincipalAttachment" -> {c.principal, c.thingName}
      [] c.type = "AWS::IoT::Policy" ->
            {c.policyName} \cup
            UNION {Range(st.Resource) : st \in Range(c.policyDocument.Statement)}
      [] c.type = "AWS::IoT::PolicyPrincipalAttachment" -> {c.principal, c.policyName}
      [] c.type = "AWS::IoT::TopicRule" ->
            {c.ruleName, c.topicRulePayload.sql,
             c.topicRulePayload.errorAction.cloudwatchLogs.logGroupName,
             c.topicRulePayload.errorAction.cloudwatchLogs.roleArn} \cup
            UNION {{a.cloudwatchMetric.metricNamespace, a.cloudwatchMetric.roleArn} :
                      a \in Range(c.topicRulePayload.actions)}
      [] c.type = "AWS::CloudWatch::Dashboard" ->
            {c.dashboardName} \cup
            UNION {{w.region} \cup {m.namespace : m \in Range(w.left)} :
                      w \in UNION {Range(row) : row \in Range(c.widgets)}}
      [] OTHER -> {}

\* The dependency edges of construct n: the explicit ones (addDependency)
\* and one for every reference (token) in its properties.
Dependencies(n) ==
    constructs[n].dependsOn \cup UNION {RefsOf(v) : v \in StringValues(constructs[n])}

\* The declared resources a construct names by a plain string: an
\* attachment's thingName / policyName is the name of a thing / policy.
NamedByLiteral(n) ==
    LET c == constructs[n]
    IN CASE c.type = "AWS::IoT::ThingPrincipalAttachment" ->
              {m \in Declared : constructs[m].type = "AWS::IoT::Thing"
                                  /\ constructs[m].thingName = c.thingName}
         [] c.type = "AWS::IoT::PolicyPrincipalAttachment" ->
              {m \in Declared : constructs[m].type = "AWS::IoT::Policy"
                                  /\ constructs[m].policyName = c.policyName}
         [] OTHER -> {}

\* Every declared resource construct n names, by reference or by name.
Names(n) ==
    UNION {RefsOf(v) : v \in StringValues(constructs[n])} \cup NamedByLiteral(n)

(***************************************************************************)
(* The orchestrator: deploys the declared graph (creating a resource once  *)
(* everything it depends on exists), tears it down in the reverse order,   *)
(* and runs the custom resource's onCreate / onDelete SDK calls.           *)
(***************************************************************************)
\* What the certificate API may answer; it never hands out an id twice.
CertificateIds == {ToString(i) : i \in 1..MaxDeploys}

Issued == {sdkCalls[i].certificateId :
              i \in {j \in DOMAIN sdkCalls : sdkCalls[j].action = "CreateKeysAndCertificateCommand"}}

BeginDeploy ==
    /\ pc = "done"
    /\ phase \in {"synth", "teardown"}
    /\ live = {}
    /\ deploys < MaxDeploys
    /\ phase' = "deploy"
    /\ deploys' = deploys + 1
    /\ UNCHANGED <<props, env, pc, constructs, live, physicalResourceId, sdkCalls>>

\* The custom resource's create handler: the onCreate call, and the
\* physical resource id taken from the response field onCreate names.
OnCreate(c) ==
    \E id \in CertificateIds \ Issued :
        LET response ==
                [certificateId |-> id,
                 certificateArn |-> "arn:aws:iot:cert/" \o id,
                 certificatePem |-> "pem:" \o id]
        IN /\ sdkCalls' = Append(sdkCalls,
                              [action |-> c.onCreate.action,
                               certificateId |-> id,
                               active |-> c.onCreate.parameters.setAsActive])
           /\ physicalResourceId' = response[c.onCreate.physicalResourceId.fromResponse]

\* The custom resource's delete handler: the onDelete call, with a
\* PhysicalResourceIdReference parameter replaced by the physical id.
OnDelete(c) ==
    LET param == c.onDelete.parameters.certificateId
    IN /\ sdkCalls' = Append(sdkCalls,
                          [action |-> c.onDelete.action,
                           certificateId |->
                               IF param = "PhysicalResourceIdReference"
                               THEN physicalResourceId ELSE param,
                           active |-> FALSE])
       /\ physicalResourceId' = ""

Create(n) ==
    /\ phase = "deploy"
    /\ n \in Declared \ live
    /\ Dependencies(n) \subseteq live
    /\ live' = live \cup {n}
    /\ IF constructs[n].type = "Custom::AWS"
       THEN OnCreate(constructs[n])
       ELSE UNCHANGED <<physicalResourceId, sdkCalls>>
    /\ UNCHANGED <<props, env, pc, constructs, phase, deploys>>

BeginTeardown ==
    /\ phase = "deploy"
    /\ phase' = "teardown"
    /\ UNCHANGED <<props, env, pc, constructs, live, physicalResourceId, sdkCalls, deploys>>

Delete(n) ==
    /\ phase = "teardown"
    /\ n \in live
    /\ \A m \in live : n \notin Dependencies(m)
    /\ live' = live \ {n}
    /\ IF constructs[n].type = "Custom::AWS"
       THEN OnDelete(constructs[n])
       ELSE UNCHANGED <<physicalResourceId, sdkCalls>>
    /\ UNCHANGED <<props, env, pc, constructs, phase, deploys>>

ResourceNames ==
    {"iotThing", "iotThingKeysAndCert", "iotThingKeysAndCertSecret",
     "iotThingPrincipalAttachment", "iotThingPolicy",
     "IotThingPolicyPrincipalAttachment", "iotRuleErrorLog", "iotRuleRole",
     "iotRule", "dashboard"}

Orchestrate ==
    \/ BeginDeploy
    \/ \E n \in ResourceNames : Create(n)
    \/ BeginTeardown
    \/ \E n \in ResourceNames : Delete(n)

Init == InitState(DeployConfigs)

Next == Construct \/ Orchestrate

Spec == Init /\ [][Next]_vars

(***************************************************************************)
(* Properties.                                                             *)
(***************************************************************************)
TypeCount(t) == Cardinality({n \in Declared : constructs[n].type = t})

AttachmentTypes == {"AWS::IoT::ThingPrincipalAttachment", "AWS::IoT::PolicyPrincipalAttachment"}

AttachmentCount == Cardinality({n \in Declared : constructs[n].type \in AttachmentTypes})

SingleTypes ==
    {"AWS::IoT::Thing", "Custom::AWS", "AWS::SecretsManager::Secret", "AWS::IoT::Policy",
     "AWS::IoT::TopicRule", "AWS::Logs::LogGroup", "AWS::IAM::Role",
     "AWS::CloudWatch::Dashboard"}

\* C1 (as amended): whenever the constructor completes, the stack holds
\* exactly ten constructs: one device identity, one credential, one secret,
\* one access policy, one routing rule, one error log sink, one execution
\* role, one dashboard and two attachments (thing-principal and
\* policy-principal), and nothing else.
C1_TenConstructs ==
    pc = "done" =>
        /\ Declared = ResourceNames
        /\ Cardinality(Declared) = 10
        /\ \A t \in SingleTypes : TypeCount(t) = 1
        /\ TypeCount("AWS::IoT::ThingPrincipalAttachment") = 1
        /\ TypeCount("AWS::IoT::PolicyPrincipalAttachment") = 1
        /\ AttachmentCount = 2
        /\ \A n \in Declared : constructs[n].type \in SingleTypes \cup AttachmentTypes

\* C1 as stated: a completed constructor has declared exactly nine
\* resources, with exactly one attachment among them.
C1_NineConstructs ==
    pc = "done" =>
        /\ Cardinality(Declared) = 9
        /\ \A t \in SingleTypes : TypeCount(t) = 1
        /\ AttachmentCount = 1

C1_Witness == pc = "done" /\ props = ShippedProps /\ env = ShippedEnv

Ordered == {"iotThingPrincipalAttachment", "IotThingPolicyPrincipalAttachment", "iotRule"}

\* C2: while the orchestrator deploys, an attachment or routing rule that
\* exists has every resource it names (by reference or by name) existing
\* too, i.e. none of them was created before a resource it names.
C2_NamedResourcesFirst ==
    phase = "deploy" => \A n \in Ordered \cap live : Names(n) \subseteq live

\* C3: the thing-principal attachment names the device by the literal
\* thingName, lists the device identity as a prerequisite once the
\* constructor is past addDependency, and never exists without the device
\* identity existing.
C3_AttachmentAfterThing ==
    /\ pc = "done" =>
          /\ RefsOf(constructs["iotThingPrincipalAttachment"].thingName) = {}
          /\ constructs["iotThingPrincipalAttachment"].thingName = constructs["iotThing"].thingName
          /\ "iotThing" \in constructs["iotThingPrincipalAttachment"].dependsOn
    /\ "iotThingPrincipalAttachment" \in live => "iotThing" \in live

C3_Witness ==
    /\ phase = "deploy"
    /\ "iotThingPrincipalAttachment" \in live
    /\ live # ResourceNames

\* The edges C4 lists, as <<prerequisite, dependent>>.
C4Edges ==
    {<<"iotThingKeysAndCert", "iotThingPrincipalAttachment">>,
     <<"iotThingKeysAndCert", "IotThingPolicyPrincipalAttachment">>,
     <<"iotThingKeysAndCert", "iotThingKeysAndCertSecret">>,
     <<"iotRuleErrorLog", "iotRule">>,
     <<"iotRuleRole", "iotRule">>}

\* C4: the declared graph has the edges credential -> attachment,
\* credential -> secret, log sink -> rule and role -> rule, and in every
\* order the orchestrator follows the dependent never exists without its
\* prerequisite.
C4_CredentialAndRuleEdges ==
    \A e \in C4Edges :
        /\ pc = "done" => e[1] \in Dependencies(e[2])
        /\ e[2] \in live => e[1] \in live

C4_Witness ==
    /\ phase = "deploy"
    /\ {"iotRule", "iotThingKeysAndCertSecret", "iotThingPrincipalAttachment"} \subseteq live
    /\ "dashboard" \notin live

IsCreateCall(i) == sdkCalls[i].action = "CreateKeysAndCertificateCommand"
IsDeleteCall(i) == sdkCalls[i].action = "DeleteCertificateCommand"

\* C9: every create call issues one active certificate whose id becomes the
\* physical id while the credential exists; every delete call names the
\* certificate issued by the create call of the same incarnation of the
\* resource (the call right before it), so none precedes its creation and
\* none names another certificate.
C9_DeleteKeyedByCreatedId ==
    /\ \A i \in DOMAIN sdkCalls :
          /\ IsCreateCall(i) =>
                /\ sdkCalls[i].active
                /\ \A j \in DOMAIN sdkCalls :
                      (IsCreateCall(j) /\ j # i) => sdkCalls[j].certificateId # sdkCalls[i].certificateId
          /\ IsDeleteCall(i) =>
                /\ i > 1
                /\ IsCreateCall(i - 1)
                /\ sdkCalls[i].certificateId = sdkCalls[i - 1].certificateId
    /\ "iotThingKeysAndCert" \in live =>
          /\ sdkCalls # <<>>
          /\ IsCreateCall(Len(sdkCalls))
          /\ physicalResourceId = sdkCalls[Len(sdkCalls)].certificateId
    /\ Cardinality({i \in DOMAIN sdkCalls : IsCreateCall(i)}) <= deploys

C9_Witness ==
    /\ Len(sdkCalls) = 4
    /\ IsDeleteCall(4)
    /\ sdkCalls[4].certificateId # sdkCalls[2].certificateId

(***************************************************************************)
(* Readers of the strings the stack produces: an ARN is cut at its colons, *)
(* a policy resource is a pattern in which * stands for any run of         *)
(* characters and ? for any one character, and the filter expression is    *)
(* SELECT <fields> FROM '<topic filter>'.                                  *)
(***************************************************************************)
RECURSIVE AfterNth(_, _, _)
\* s after the n-th occurrence of sep.
AfterNth(n, sep, s) == IF n = 0 THEN s ELSE AfterNth(n - 1, sep, After(sep, s))

\* arn:partition:service:region:account:resource
ArnHeader(arn) == SubSeq(Split(<<":">>, arn), 1, 5)
ArnResource(arn) == AfterNth(5, <<":">>, arn)

RECURSIVE Glob(_, _)
Glob(pat, t) ==
    IF pat = <<>> THEN t = <<>>
    ELSE IF Head(pat) = "*" THEN Glob(Tail(pat), t) \/ (t # <<>> /\ Glob(pat, Tail(t)))
    ELSE /\ t # <<>>
         /\ Head(pat) = "?" \/ Head(pat) = Head(t)
         /\ Glob(Tail(pat), Tail(t))

Allows(st, action) == st.Effect = "Allow" /\ action \in Range(st.Action)

\* The resource patterns the policy allows iot:Publish on.
PublishPatterns(policy) ==
    {ArnResource(r) :
        r \in UNION {Range(st.Resource) :
                        st \in {x \in Range(policy.policyDocument.Statement) :
                                   Allows(x, "iot:Publish")}}}

\* Whether a policy with these publish patterns lets its principal publish
\* on the topic.
Publishable(patterns, topic) ==
    \E pat \in patterns : Glob(pat, <<"t","o","p","i","c","/">> \o topic)

TopicAlphabet == {"r", "x", "/"}
TopicUniverse == StringsUpTo(TopicAlphabet, MaxTopicLen)

\* The characters the policy language does not take literally.
PolicyMeta == {"*", "?", "$"}
PolicyLiteral(s) == Range(s) \cap PolicyMeta = {}

C5Shape(policy, prefix) ==
    LET sts == policy.policyDocument.Statement
    IN /\ Len(sts) = 2
       /\ sts[1].Effect = "Allow" /\ sts[1].Action = <<"iot:Publish">>
       /\ Len(sts[1].Resource) = 1
       /\ ArnHeader(sts[1].Resource[1]) =
             << <<"a","r","n">>, <<"a","w","s">>, <<"i","o","t">>, env.region, env.account >>
       /\ ArnResource(sts[1].Resource[1]) =
             <<"t","o","p","i","c","/">> \o prefix \o <<"/","*">>
       /\ sts[2].Effect = "Allow" /\ sts[2].Action = <<"iot:Connect">>
       /\ Len(sts[2].Resource) = 1
       /\ ArnHeader(sts[2].Resource[1]) = ArnHeader(sts[1].Resource[1])
       /\ ArnResource(sts[2].Resource[1]) = <<"c","l","i","e","n","t","/">> \o <<TokThingRef>>
       /\ constructs[TokenTarget[TokThingRef]].type = "AWS::IoT::Thing"

C5Scope(policy, prefix) ==
    LET patterns == PublishPatterns(policy)
    IN \A topic \in TopicUniverse :
          Publishable(patterns, topic) => IsPrefix(prefix \o <<"/">>, topic)

\* C5 (as amended): when iotTopicPrefix holds no character the policy
\* language interprets (* ? $), the policy has exactly two statements: one
\* allowing iot:Publish on the single resource
\* arn:aws:iot:{region}:{account}:topic/{iotTopicPrefix}/*, under which every
\* publishable topic starts with {iotTopicPrefix}/, and one allowing
\* iot:Connect on the client ARN of the device identity.
C5_PublishScopedToPrefix ==
    (pc = "done" /\ PolicyLiteral(props.iotTopicPrefix)) =>
        /\ C5Shape(constructs["iotThingPolicy"], props.iotTopicPrefix)
        /\ C5Scope(constructs["iotThingPolicy"], props.iotTopicPrefix)

\* C5 as stated: the same for every configuration.
C5_PublishScopedForEveryPrefix ==
    pc = "done" =>
        /\ C5Shape(constructs["iotThingPolicy"], props.iotTopicPrefix)
        /\ C5Scope(constructs["iotThingPolicy"], props.iotTopicPrefix)

C5_Witness ==
    /\ pc = "done"
    /\ props.iotTopicPrefix = <<"r">>
    /\ Publishable(PublishPatterns(constructs["iotThingPolicy"]), <<"r","/","x">>)
    /\ ~Publishable(PublishPatterns(constructs["iotThingPolicy"]), <<"x","/","r">>)

\* The field list of the filter expression.
SqlFields(sql) ==
    Split(<<",">>, Before(<<" ","F","R","O","M"," ">>, After(<<"S","E","L","E","C","T"," ">>, sql)))

\* The FROM clause: a quote, the topic filter up to the next quote, and
\* whatever follows the closing quote.
SqlFrom(sql) ==
    LET rest == After(<<" ","F","R","O","M"," ">>, sql)
        body == Drop(rest, 1)
    IN [quoted |-> rest # <<>> /\ Head(rest) = "'" /\ IndexOf(<<"'">>, body) # 0,
        topic |-> Before(<<"'">>, body),
        trailing |-> After(<<"'">>, body)]

C6Reads(sql, p) ==
    /\ IsPrefix(<<"S","E","L","E","C","T"," ">>, sql)
    /\ SqlFields(sql) = << <<"t","e","m","p","e","r","a","t","u","r","e">>, <<"h","u","m","i","d","i","t","y">> >>
    /\ SqlFrom(sql).quoted
    /\ SqlFrom(sql).topic = p.iotTopicPrefix \o <<"/">> \o p.ruuviTagId
    /\ SqlFrom(sql).trailing = <<>>

ShippedSql ==
    <<"S","E","L","E","C","T"," ","t","e","m","p","e","r","a","t","u","r","e",",","h","u","m","i","d","i","t","y"," ","F","R","O","M"," ","'","r","u","u","v","i","t","a","g","/","f","3","d","6","1","9","9","9","8","f","3","8","'">>

NoQuote(s) == "'" \notin Range(s)

RuleMetricActions == Range(constructs["iotRule"].topicRulePayload.actions)

DashboardMetrics ==
    UNION {Range(w.left) : w \in UNION {Range(row) : row \in Range(constructs["dashboard"].widgets)}}

ShippedNamespace ==
    <<"R","u","u","v","i","T","a","g","/","f","3","d","6","1","9","9","9","8","f","3","8">>

\* C7: the metric namespace of every cloudwatchMetric action of the rule
\* and of every metric of the dashboard is the same string,
\* {cloudWatchMetricNameSpace}/{ruuviTagId}; RuuviTag/f3d619998f38 for the
\* shipped configuration.
C7_SameMetricNamespace ==
    pc = "done" =>
        LET ns == props.cloudWatchMetricNameSpace \o <<"/">> \o props.ruuviTagId
        IN /\ \A a \in RuleMetricActions : a.cloudwatchMetric.metricNamespace = ns
           /\ \A m \in DashboardMetrics : m.namespace = ns
           /\ props = ShippedProps => ns = ShippedNamespace

C7_Witness ==
    /\ pc = "done"
    /\ props.cloudWatchMetricNameSpace = <<"N","/","S">>
    /\ props.ruuviTagId = <<"f">>
    /\ RuleMetricActions # {}
    /\ DashboardMetrics # {}

\* Whether the role's policies allow the action on the resource value.
RoleAllows(role, action, resource) ==
    \E st \in Range(role.inlinePolicies.putMetricsPolicy) \cup Range(role.defaultPolicy) :
        /\ action \in Range(st.actions)
        /\ \E r \in Range(st.resources) : r = <<"*">> \/ r = resource

\* C10: both cloudwatchMetric actions (Temperature from ${temperature},
\* Humidity from ${humidity}) and the cloudwatchLogs error action run under
\* the one role iotRuleRole, which the IoT service may assume, which allows
\* cloudwatch:PutMetricData and which may write to the log group the error
\* action names; and the dashboard's metric name is one a rule action emits.
C10_RuleActionsPermitted ==
    pc = "done" =>
        LET payload == constructs["iotRule"].topicRulePayload
            role == constructs["iotRuleRole"]
            errorLog == payload.errorAction.cloudwatchLogs
        IN /\ {<<a.cloudwatchMetric.metricName, a.cloudwatchMetric.metricValue>> :
                  a \in RuleMetricActions} =
                {<<"Temperature", "${temperature}">>, <<"Humidity", "${humidity}">>}
           /\ Len(payload.actions) = 2
           /\ \A a \in RuleMetricActions :
                 /\ a.cloudwatchMetric.roleArn = role.roleArn
                 /\ RoleAllows(role, "cloudwatch:PutMetricData", <<"*">>)
           /\ errorLog.roleArn = role.roleArn
           /\ RefsOf(role.roleArn) = {"iotRuleRole"}
           /\ role.assumedBy = "iot.amazonaws.com"
           /\ errorLog.logGroupName = constructs["iotRuleErrorLog"].logGroupName
           /\ RefsOf(errorLog.logGroupName) = {"iotRuleErrorLog"}
           /\ \A action \in {"logs:CreateLogStream", "logs:PutLogEvents"} :
                 RoleAllows(role, action, constructs["iotRuleErrorLog"].logGroupArn)
           /\ DashboardMetrics # {}
           /\ \A m \in DashboardMetrics :
                 m.metricName \in {a.cloudwatchMetric.metricName : a \in RuleMetricActions}

C10_Witness ==
    /\ pc = "done"
    /\ props = ShippedProps
    /\ Len(constructs["iotRuleRole"].defaultPolicy) = 1
    /\ \E m \in DashboardMetrics : m.metricName = "Humidity"
====
